---- MODULE Spec2Model ----
(***************************************************************************)
(* Model of streamlit_app.py: the DataForSEO standard-queue client.        *)
(* main() checks the two secrets, reads the form, and for every city of    *)
(* the parsed list calls scrape_google_urls(), which posts one task, then  *)
(* polls it (sleep, GET) for at most max_attempts attempts and extracts    *)
(* the items of the first successful payload.  The results of all cities   *)
(* are collected in the dict all_results and handed to the Excel writer.   *)
(*                                                                         *)
(* Python values: a dict is a record, a list a sequence, the None object   *)
(* is PyNone where a dict is expected and the string None where a string   *)
(* is expected.  A blocking requests.get() is two steps (request issued,   *)
(* response received) so that overlapping requests would be visible.       *)
(* The slider values of max_results (10..200) are scaled down to           *)
(* 1..MaxCap so that payloads of a few items reach the cap.                *)
(***************************************************************************)
EXTENDS Integers, Sequences, FiniteSets, TLC

\* Bounds of the model.
MaxText  == 3      \* characters in the "cities" text area
MaxItems == 2      \* items in a task's result array, all elements together
MaxElems == 2      \* elements in a task's result array
MaxCap   == 2      \* largest max_results offered by the form

\* Program constant: max_attempts = 10.
max_attempts == 10

----------------------------------------------------------------------------
\* Python values and helpers

None == "None"
PyNone == [py |-> "None"]

SeqsUpTo(S, n) == UNION {[1..k -> S] : k \in 0..n}

\* dict.get(key, default)
Get(d, key, default) == IF key \in DOMAIN d THEN d[key] ELSE default

\* truth value of a str-or-None
Truthy(s) == s # None /\ s # ""

\* truth value of a dict-or-None
Falsy(d) == d = PyNone \/ DOMAIN d = {}

\* d.get('status_code') != code   (a missing status_code is None, which differs)
StatusIsNot(d, code) == IF "status_code" \in DOMAIN d THEN d.status_code # code ELSE TRUE

----------------------------------------------------------------------------
\* main(): parsing of the form

IsSpace(c) == c \in {" ", "\n", "\t"}

RECURSIVE LStrip(_)
LStrip(s) == IF s # <<>> /\ IsSpace(Head(s)) THEN LStrip(Tail(s)) ELSE s

RECURSIVE RStrip(_)
RStrip(s) == IF s # <<>> /\ IsSpace(s[Len(s)]) THEN RStrip(SubSeq(s, 1, Len(s) - 1)) ELSE s

\* str.strip()
Strip(s) == RStrip(LStrip(s))

\* str.split(sep): the segments between separators, at least one
RECURSIVE SplitFrom(_, _, _, _)
SplitFrom(s, sep, k, cur) ==
    IF k > Len(s) THEN <<cur>>
    ELSE IF s[k] = sep THEN <<cur>> \o SplitFrom(s, sep, k + 1, <<>>)
    ELSE SplitFrom(s, sep, k + 1, Append(cur, s[k]))

Split(s, sep) == SplitFrom(s, sep, 1, <<>>)

\* [city.strip() for city in lines if city.strip()]
RECURSIVE StripNonBlank(_)
StripNonBlank(lines) ==
    IF lines = <<>> THEN <<>>
    ELSE LET c == Strip(Head(lines))
         IN (IF c # <<>> THEN <<c>> ELSE <<>>) \o StripNonBlank(Tail(lines))

ParseCities(text) == StripNonBlank(Split(text, "\n"))

\* f"{query} {city}"
FullQuery(q, city) == q \o <<" ">> \o city

\* "DATAFORSEO_USERNAME" not in st.secrets or "DATAFORSEO_PASSWORD" not in st.secrets
CredentialsMissing_and(s) == "DATAFORSEO_USERNAME" \notin s /\ "DATAFORSEO_PASSWORD" \notin s

CredentialsMissing(s) == "DATAFORSEO_USERNAME" \notin s \/ "DATAFORSEO_PASSWORD" \notin s

----------------------------------------------------------------------------
\* DataForSEOAPI: what the HTTP layer can hand back

TaskIds == {"t1"}
Urls == {"", "a"}

\* one entry of an "items" array: the url key may be missing, empty or set (a null url
\* is read by result.get('url') as the same None as a missing key, so it is not
\* listed apart); the type is never read by the program, so one non-organic entry
\* (with a url) is enough
Items == {[type |-> "organic"], [type |-> "paid", url |-> "a"]}
         \cup {[type |-> "organic", url |-> u] : u \in Urls}

\* the elements of a task's "result" array that hold at most n items
ElementsUpTo(n) == {[items |-> l] : l \in SeqsUpTo(Items, n)}

ItemCount(element) == Len(element.items)

\* the result arrays of at most e elements that hold at most n items in all
RECURSIVE PayloadsOf(_, _)
PayloadsOf(n, e) ==
    IF e = 0 THEN {<<>>}
    ELSE {<<>>} \cup UNION {{<<el>> \o rest : rest \in PayloadsOf(n - ItemCount(el), e - 1)} :
                              el \in ElementsUpTo(n)}

Payloads == PayloadsOf(MaxItems, MaxElems)

PostBodies ==
    {[status_code |-> 40100],
     [status_code |-> 20000],
     [status_code |-> 20000, tasks |-> <<>>],
     [status_code |-> 20000, tasks |-> <<[status_code |-> 20100]>>],
     [status_code |-> 20000, tasks |-> <<[status_code |-> 20100, id |-> ""]>>],
     [status_code |-> 40100, tasks |-> <<[status_code |-> 40100, id |-> "t1"]>>]}
    \cup {[status_code |-> 20000, tasks |-> <<[status_code |-> 20100, id |-> t]>>] : t \in TaskIds}

GetBodies ==
    {[status_code |-> 40100],
     [status_code |-> 20000],
     [status_code |-> 20000, tasks |-> <<>>],
     [status_code |-> 20000, tasks |-> <<[status_code |-> 40602]>>],
     [status_code |-> 20000, tasks |-> <<[status_code |-> 40400]>>],
     [status_code |-> 20000, tasks |-> <<[status_message |-> "x"]>>],
     [status_code |-> 40100, tasks |-> <<[status_code |-> 20000, result |-> <<>>]>>],
     [status_code |-> 20000, tasks |-> <<[status_code |-> 20000]>>]}
    \cup {[status_code |-> 20000, tasks |-> <<[status_code |-> 20000, result |-> p]>>] : p \in Payloads}

\* outcome of requests.post / requests.get followed by raise_for_status and json
PostOutcomes == {[kind |-> "exception"]} \cup {[kind |-> "json", body |-> b] : b \in PostBodies}
GetOutcomes == {[kind |-> "exception"]} \cup {[kind |-> "json", body |-> b] : b \in GetBodies}

\* post_task: a RequestException is caught and None returned
post_task(http) == IF http.kind = "exception" THEN PyNone ELSE http.body

\* get_results: a RequestException is caught and None returned
get_results(http) == IF http.kind = "exception" THEN PyNone ELSE http.body

----------------------------------------------------------------------------
\* scrape_google_urls: the decisions

PostFailed_nostatus(post_response) == Falsy(post_response)

\* not post_response or post_response.get('status_code') != 20000
PostFailed(post_response) == Falsy(post_response) \/ StatusIsNot(post_response, 20000)

\* the id of the first task, None when there is no task or no id
TaskIdOf(post_response) ==
    LET tasks == Get(post_response, "tasks", <<>>)
    IN IF tasks = <<>> THEN None ELSE Get(tasks[1], "id", None)

HasNext_le(a) == a + 1 <= max_attempts

\* for attempt in range(max_attempts): is there an attempt after attempt a
HasNext(a) == a + 1 < max_attempts

WaitTime_swapped(a) == IF a = 0 THEN 60 ELSE 30

\* wait_time = 30 if attempt == 0 else 60
WaitTime(a) == IF a = 0 THEN 30 ELSE 60

\* the three "continue" branches of the poll loop
Unusable(get_response) ==
    \/ Falsy(get_response)
    \/ StatusIsNot(get_response, 20000)
    \/ Get(get_response, "tasks", <<>>) = <<>>

TaskDone_orpending(task) == ~StatusIsNot(task, 20000) \/ ~StatusIsNot(task, 40602)

\* task_status == 20000
TaskDone(task) == ~StatusIsNot(task, 20000)

\* result_items: the items of all result elements, in order
RECURSIVE Flatten(_)
Flatten(task_result) ==
    IF task_result = <<>> THEN <<>>
    ELSE Get(Head(task_result), "items", <<>>) \o Flatten(Tail(task_result))

\* len(results) >= max_results
CapReached(results, cap) == Len(results) >= cap

Keep_notnone(result) == Get(result, "url", None) # None

Keep_organic(result) == Truthy(Get(result, "url", None)) /\ Get(result, "type", None) = "organic"

\* url = result.get('url'); if url:
Keep(result) == Truthy(Get(result, "url", None))

PositionOf_running(position, results) == Len(results) + 1

\* the Position written for the item that enumerate() numbers position
PositionOf(position, results) == position

\* for position, result in enumerate(result_items, start=1): ...
RECURSIVE ExtractFrom(_, _, _, _)
ExtractFrom(result_items, position, results, cap) ==
    IF position > Len(result_items) \/ CapReached(results, cap) THEN results
    ELSE LET result == result_items[position]
         IN ExtractFrom(result_items, position + 1,
                IF Keep(result)
                THEN Append(results, [Position |-> PositionOf(position, results),
                                      URL |-> Get(result, "url", None)])
                ELSE results,
                cap)

Extract(result_items, cap) == ExtractFrom(result_items, 1, <<>>, cap)

\* results[:max_results]
Slice(results, cap) == SubSeq(results, 1, IF Len(results) < cap THEN Len(results) ELSE cap)

\* pd.DataFrame(data)[["Position", "URL"]]
DataFrame(rows) == [k \in 1..Len(rows) |-> [Position |-> rows[k].Position, URL |-> rows[k].URL]]

\* all_results[full_query] = df
DictSet(d, key, value) == [k \in DOMAIN d \cup {key} |-> IF k = key THEN value ELSE d[k]]

----------------------------------------------------------------------------
\* State

VARIABLES
    secrets,        \* names present in st.secrets
    pc,             \* position of the script
    query,          \* main: the search term
    max_results,    \* main: the cap chosen on the slider
    cities_list,    \* main: the parsed cities
    i,              \* main: number of cities done (0-based index of the current one)
    all_results,    \* main: dict full_query -> DataFrame
    data,           \* main: what scrape_google_urls returned
    exported,       \* what create_excel_with_multiple_sheets was given
    full_query,     \* scrape_google_urls: its query argument
    results,        \* scrape_google_urls: results
    post_response,  \* scrape_google_urls: post_response
    task_id,        \* scrape_google_urls: task_id
    attempt,        \* scrape_google_urls: the loop variable
    get_response,   \* scrape_google_urls: get_response
    result_items,   \* scrape_google_urls: result_items
    posted,         \* log: the queries POSTed, in order
    requested,      \* log: task ids of the GETs issued and not yet answered
    nGets,          \* log: GETs issued by the current scrape_google_urls call
    sleeps,         \* log: the sleeps since the last network call
    nSleeps,        \* log: sleeps of the current scrape_google_urls call
    submitOk,       \* log: the POST of the current call yielded a task id
    sawSuccess,     \* log: a GET of the current call reported task status 20000
    outcomes        \* log: one record per finished city

mainVars == <<secrets, query, max_results, cities_list, i, all_results, data, exported>>
scrapeVars == <<full_query, results, post_response, task_id, attempt, get_response, result_items>>
logVars == <<posted, requested, nGets, sleeps, nSleeps, submitOk, sawSuccess, outcomes>>
vars == <<pc, mainVars, scrapeVars, logVars>>

SecretNames == {"DATAFORSEO_USERNAME", "DATAFORSEO_PASSWORD"}
Alphabet == {" ", "L", "\n"}
Texts == SeqsUpTo(Alphabet, MaxText)
Queries == {<<>>, <<"a">>}
Caps == 1..MaxCap
EmptyDict == <<>>
NotExported == [called |-> FALSE, sheets |-> EmptyDict]

Init ==
    /\ secrets \in SUBSET SecretNames
    /\ pc = "start"
    /\ query = <<>>
    /\ max_results = 1
    /\ cities_list = <<>>
    /\ i = 0
    /\ all_results = EmptyDict
    /\ data = <<>>
    /\ exported = NotExported
    /\ full_query = <<>>
    /\ results = <<>>
    /\ post_response = PyNone
    /\ task_id = None
    /\ attempt = 0
    /\ get_response = PyNone
    /\ result_items = <<>>
    /\ posted = <<>>
    /\ requested = <<>>
    /\ nGets = 0
    /\ sleeps = <<>>
    /\ nSleeps = 0
    /\ submitOk = FALSE
    /\ sawSuccess = FALSE
    /\ outcomes = <<>>

----------------------------------------------------------------------------
\* Classification of the raw outcomes, for the logs

\* the POST outcome carries envelope status 20000 and a first task with a non-empty id
IsSubmitOk(http) ==
    /\ http.kind = "json"
    /\ "status_code" \in DOMAIN http.body /\ http.body.status_code = 20000
    /\ "tasks" \in DOMAIN http.body /\ http.body.tasks # <<>>
    /\ "id" \in DOMAIN http.body.tasks[1] /\ http.body.tasks[1].id \notin {None, ""}

\* the GET outcome carries envelope status 20000 and a first task with status 20000
IsTaskSuccess(http) ==
    /\ http.kind = "json"
    /\ "status_code" \in DOMAIN http.body /\ http.body.status_code = 20000
    /\ "tasks" \in DOMAIN http.body /\ http.body.tasks # <<>>
    /\ "status_code" \in DOMAIN http.body.tasks[1] /\ http.body.tasks[1].status_code = 20000

----------------------------------------------------------------------------
\* Actions

\* main, lines 169-171
CheckSecrets ==
    /\ pc = "start"
    /\ pc' = IF CredentialsMissing(secrets) THEN "aborted" ELSE "form"
    /\ UNCHANGED <<mainVars, scrapeVars, logVars>>

\* main, lines 403-449: the form is filled in and the button pressed
ClickSearch ==
    /\ pc = "form"
    /\ \E q \in Queries, text \in Texts, cap \in Caps :
         /\ query' = q
         /\ max_results' = cap
         /\ cities_list' = ParseCities(text)
         /\ pc' = IF q = <<>> \/ ParseCities(text) = <<>> THEN "input_error" ELSE "loop"
    /\ all_results' = EmptyDict
    /\ i' = 0
    /\ UNCHANGED <<secrets, data, exported, scrapeVars, logVars>>

\* main, lines 451-455 and scrape_google_urls, lines 59-63
StartScrape ==
    /\ pc = "loop"
    /\ i < Len(cities_list)
    /\ full_query' = FullQuery(query, cities_list[i + 1])
    /\ results' = <<>>
    /\ post_response' = PyNone
    /\ task_id' = None
    /\ attempt' = 0
    /\ get_response' = PyNone
    /\ result_items' = <<>>
    /\ nGets' = 0
    /\ nSleeps' = 0
    /\ sleeps' = <<>>
    /\ submitOk' = FALSE
    /\ sawSuccess' = FALSE
    /\ pc' = IF SecretNames \subseteq secrets THEN "post" ELSE "uncaught"
    /\ UNCHANGED <<mainVars, posted, requested, outcomes>>

\* scrape_google_urls, lines 71-87, with post_task, lines 27-45
Submit ==
    /\ pc = "post"
    /\ \E http \in PostOutcomes :
         LET resp == post_task(http)
             failed == PostFailed(resp) \/ ~Truthy(TaskIdOf(resp))
         IN /\ post_response' = resp
            /\ submitOk' = IsSubmitOk(http)
            /\ task_id' = IF failed THEN None ELSE TaskIdOf(resp)
            /\ pc' = IF failed THEN "ret" ELSE "sleep"
    /\ posted' = Append(posted, full_query)
    /\ sleeps' = <<>>
    /\ UNCHANGED <<mainVars, full_query, results, attempt, get_response, result_items,
                   requested, nGets, nSleeps, sawSuccess, outcomes>>

\* scrape_google_urls, lines 96-105
Sleep ==
    /\ pc = "sleep"
    /\ sleeps' = Append(sleeps, WaitTime(attempt))
    /\ nSleeps' = nSleeps + 1
    /\ pc' = "get"
    /\ UNCHANGED <<mainVars, scrapeVars, posted, requested, nGets, submitOk, sawSuccess, outcomes>>

\* scrape_google_urls, line 108 and get_results, line 50: the GET is issued
FetchSend ==
    /\ pc = "get"
    /\ requested' = Append(requested, task_id)
    /\ nGets' = nGets + 1
    /\ sleeps' = <<>>
    /\ pc' = "get_wait"
    /\ UNCHANGED <<mainVars, scrapeVars, posted, nSleeps, submitOk, sawSuccess, outcomes>>

\* get_results, lines 50-55 and scrape_google_urls, lines 110-151: the GET is answered
\* (a response that does not end the loop is not read again and is not kept)
FetchReturn ==
    /\ pc = "get_wait"
    /\ requested' = Tail(requested)
    /\ \E http \in GetOutcomes :
         LET resp == get_results(http)
         IN /\ sawSuccess' = (sawSuccess \/ IsTaskSuccess(http))
            /\ IF ~Unusable(resp) /\ TaskDone(resp.tasks[1])
               THEN /\ get_response' = resp
                    /\ result_items' = Flatten(Get(resp.tasks[1], "result", <<>>))
                    /\ results' = Extract(result_items', max_results)
                    /\ pc' = "ret"
                    /\ UNCHANGED attempt
               ELSE /\ get_response' = PyNone
                    /\ attempt' = IF HasNext(attempt) THEN attempt + 1 ELSE attempt
                    /\ pc' = IF HasNext(attempt) THEN "sleep" ELSE "ret"
                    /\ UNCHANGED <<results, result_items>>
    /\ UNCHANGED <<mainVars, full_query, post_response, task_id,
                   posted, nGets, sleeps, nSleeps, submitOk, outcomes>>

\* scrape_google_urls, line 156 and main, line 455: the call returns and its locals
\* are gone (result_items is kept until main has stored the list, to relate the two)
Return ==
    /\ pc = "ret"
    /\ data' = Slice(results, max_results)
    /\ pc' = "store"
    /\ results' = <<>>
    /\ post_response' = PyNone
    /\ get_response' = PyNone
    /\ task_id' = None
    /\ attempt' = 0
    /\ UNCHANGED <<secrets, query, max_results, cities_list, i, all_results, exported,
                   full_query, result_items, logVars>>

\* main, lines 456-461
Store ==
    /\ pc = "store"
    /\ all_results' = IF data # <<>> THEN DictSet(all_results, full_query, DataFrame(data))
                      ELSE all_results
    /\ outcomes' = Append(outcomes, [key |-> full_query, submitted |-> submitOk,
                                      success |-> sawSuccess, data |-> data])
    /\ i' = i + 1
    /\ pc' = "loop"
    /\ result_items' = <<>>
    /\ data' = <<>>
    /\ UNCHANGED <<secrets, query, max_results, cities_list, exported, full_query,
                   results, post_response, get_response, task_id, attempt,
                   posted, requested, nGets, sleeps, nSleeps, submitOk, sawSuccess>>

\* main, lines 465-490 with create_excel_with_multiple_sheets, lines 158-164
Finish ==
    /\ pc = "loop"
    /\ i = Len(cities_list)
    /\ IF DOMAIN all_results # {}
       THEN /\ exported' = [called |-> TRUE, sheets |-> all_results]
            /\ pc' = "done"
       ELSE /\ exported' = exported
            /\ pc' = "no_results"
    /\ UNCHANGED <<secrets, query, max_results, cities_list, i, all_results, data,
                   scrapeVars, logVars>>

Next ==
    \/ CheckSecrets
    \/ ClickSearch
    \/ StartScrape
    \/ Submit
    \/ Sleep
    \/ FetchSend
    \/ FetchReturn
    \/ Return
    \/ Store
    \/ Finish

Spec == Init /\ [][Next]_vars

TypeOK ==
    /\ pc \in {"start", "aborted", "form", "input_error", "loop", "post", "sleep", "get",
               "get_wait", "ret", "store", "done", "no_results", "uncaught"}
    /\ attempt \in 0..(max_attempts - 1)
    /\ i \in 0..Len(cities_list)

----------------------------------------------------------------------------
\* Properties

UrlOf(item) == IF "url" \in DOMAIN item THEN item.url ELSE None
HasUrl(item) == UrlOf(item) \notin {None, ""}
Count(seq, x) == Cardinality({k \in 1..Len(seq) : seq[k] = x})
Increasing(rows) == \A k \in 1..(Len(rows) - 1) : rows[k].Position < rows[k + 1].Position

\* scrape_google_urls has returned to main after a GET that reported task status 20000
ReturnedAfterSuccess == pc = "store" /\ sawSuccess

\* C1 as stated: after a submit that succeeds and a fetch that reports task success, the
\* returned list has at most max_results entries, its Positions are strictly increasing,
\* and the first returned entry has Position 1.
C1_Original ==
    ReturnedAfterSuccess =>
        /\ Len(data) <= max_results
        /\ Increasing(data)
        /\ (data # <<>> => data[1].Position = 1)

\* C1 amended: the returned list has at most max_results entries, its Positions are strictly
\* increasing, and each Position is the 1-based index of the entry's source item in the
\* flattened item list, so the first entry has Position 1 when the first item has a url.
C1_Positions ==
    ReturnedAfterSuccess =>
        /\ Len(data) <= max_results
        /\ Increasing(data)
        /\ \A k \in 1..Len(data) :
              /\ data[k].Position \in 1..Len(result_items)
              /\ UrlOf(result_items[data[k].Position]) = data[k].URL
        /\ (result_items # <<>> /\ HasUrl(result_items[1])) =>
              (data # <<>> /\ data[1].Position = 1)

C1_Witness ==
    /\ ReturnedAfterSuccess
    /\ data # <<>>
    /\ data[1].Position = 2
    /\ ~HasUrl(result_items[1])

\* C2 as stated: when the batch is over, every distinct non-blank label of the list has
\* been submitted exactly once, and no blank label has been submitted.
C2_EachLabelOnce ==
    pc \in {"done", "no_results"} =>
        /\ \A k \in 1..Len(cities_list) : Count(posted, FullQuery(query, cities_list[k])) = 1
        /\ \A k \in 1..Len(posted) : \E c \in 1..Len(cities_list) :
              /\ \E n \in 1..Len(cities_list[c]) : cities_list[c][n] # " "
              /\ posted[k] = FullQuery(query, cities_list[c])

\* C3: a poll loop in which no fetch reports task success issues at most 10 fetches and
\* returns the empty list, and the script never stops on an uncaught error.
C3_Exhaustion ==
    /\ nGets <= 10
    /\ pc # "uncaught"
    /\ (pc = "ret" /\ submitOk /\ ~sawSuccess) => (nGets = 10 /\ results = <<>>)
    /\ (pc = "store" /\ submitOk /\ ~sawSuccess) => (nGets = 10 /\ data = <<>>)

C3_Witness == pc = "store" /\ submitOk /\ ~sawSuccess /\ nGets = 10 /\ data = <<>>

\* no city finished so far under this key had a successful submit
NeverSubmitted(key) == \A j \in 1..Len(outcomes) : outcomes[j].key = key => ~outcomes[j].submitted

\* C4: when the submit of a city fails, no sleep and no fetch is performed for it, the
\* empty list is returned, storing it adds no entry to the report (a key whose submits all
\* failed has no entry), and the loop moves to the next city, which it submits.
C4_SubmitFailure ==
    /\ []((pc \in {"sleep", "get", "get_wait"} \/ nGets > 0 \/ nSleeps > 0) => submitOk)
    /\ []((pc = "ret" /\ ~submitOk) => (nGets = 0 /\ nSleeps = 0 /\ results = <<>>))
    /\ []((pc = "store" /\ ~submitOk) => (nGets = 0 /\ nSleeps = 0 /\ data = <<>>))
    /\ [](\A j \in 1..Len(outcomes) :
             NeverSubmitted(outcomes[j].key) => outcomes[j].key \notin DOMAIN all_results)
    /\ [][(pc = "store" /\ ~submitOk) =>
             (all_results' = all_results /\ i' = i + 1 /\ pc' = "loop")]_vars
    /\ [][(pc = "loop" /\ i < Len(cities_list) /\ i > 0 /\ ~outcomes[i].submitted) =>
             (pc' = "post" /\ full_query' = FullQuery(query, cities_list[i + 1]))]_vars

C4_Witness ==
    /\ Len(outcomes) = 1
    /\ ~outcomes[1].submitted
    /\ Len(posted) = 2
    /\ posted[2] = FullQuery(query, cities_list[2])

\* C5 as stated: when the batch is over, every city whose poll loop ended on a task success
\* (with an empty or a non-empty list) has an entry in the report given to the exporter,
\* under its "keyword location" label and holding its own list; no other city has one.
C5_ReportComplete ==
    pc \in {"done", "no_results"} =>
        \A k \in 1..Len(outcomes) :
            IF outcomes[k].success
            THEN /\ exported.called
                 /\ outcomes[k].key \in DOMAIN exported.sheets
                 /\ exported.sheets[outcomes[k].key] = outcomes[k].data
            ELSE outcomes[k].key \notin DOMAIN exported.sheets

\* C6: no returned entry has a missing or empty URL, and a source item whose url is
\* absent, null or empty yields no entry.
C6_NoEmptyUrl ==
    /\ \A k \in 1..Len(results) : results[k].URL \notin {None, ""}
    /\ \A k \in 1..Len(data) : data[k].URL \notin {None, ""}
    /\ \A key \in DOMAIN all_results : \A k \in 1..Len(all_results[key]) :
          all_results[key][k].URL \notin {None, ""}
    /\ ReturnedAfterSuccess =>
          \A n \in 1..Len(result_items) :
              ~HasUrl(result_items[n]) => ~\E k \in 1..Len(data) : data[k].Position = n

C6_Witness ==
    /\ ReturnedAfterSuccess
    /\ data # <<>>
    /\ \E n \in 1..Len(result_items) : UrlOf(result_items[n]) = ""

\* C7 as stated: every returned entry comes from a source item of type "organic".
C7_Original ==
    ReturnedAfterSuccess =>
        \A k \in 1..Len(data) :
            /\ data[k].Position \in 1..Len(result_items)
            /\ result_items[data[k].Position].type = "organic"

\* C7 amended: no type filter is applied: every source item that has a non-empty url,
\* of whatever type, is returned unless the cap was reached before it, and so counts
\* toward the cap.
C7_NoTypeFilter ==
    ReturnedAfterSuccess =>
        \A n \in 1..Len(result_items) :
            (/\ HasUrl(result_items[n])
             /\ Cardinality({m \in 1..(n - 1) : HasUrl(result_items[m])}) < max_results)
            => \E k \in 1..Len(data) : data[k].Position = n /\ data[k].URL = UrlOf(result_items[n])

C7_Witness ==
    /\ ReturnedAfterSuccess
    /\ max_results = 1
    /\ Len(result_items) = 2
    /\ result_items[1].type = "paid"
    /\ result_items[2].type = "organic" /\ HasUrl(result_items[2])
    /\ Len(data) = 1
    /\ data[1].Position = 1

\* C8: if a credential secret is absent the script stops at the reported error: it never
\* leaves the secrets check, and no POST and no GET is issued.
C8_NoWorkWithoutCredentials ==
    ("DATAFORSEO_USERNAME" \notin secrets \/ "DATAFORSEO_PASSWORD" \notin secrets) =>
        /\ pc \in {"start", "aborted"}
        /\ posted = <<>>
        /\ requested = <<>>
        /\ nGets = 0
        /\ nSleeps = 0

C8_Witness == pc = "aborted" /\ secrets = {"DATAFORSEO_PASSWORD"}

\* the answered GET carries envelope status 20000 and a first task of status 20000
SuccessResponse(r) ==
    /\ r # PyNone
    /\ "status_code" \in DOMAIN r /\ r.status_code = 20000
    /\ "tasks" \in DOMAIN r /\ r.tasks # <<>>
    /\ "status_code" \in DOMAIN r.tasks[1] /\ r.tasks[1].status_code = 20000

\* C9: an answered fetch ends the poll loop only if it reports task success (then the
\* items of that very response are extracted and returned) or if it was the 10th fetch;
\* any other answer leads to the next attempt; after a success the call sleeps and
\* fetches no more.
C9_PollStops ==
    /\ [][pc = "get_wait" =>
            IF sawSuccess'
            THEN /\ pc' = "ret"
                 /\ SuccessResponse(get_response')
                 /\ result_items' = Flatten(IF "result" \in DOMAIN get_response'.tasks[1]
                                            THEN get_response'.tasks[1].result ELSE <<>>)
                 /\ \A k \in 1..Len(results') :
                       results'[k].URL = UrlOf(result_items'[results'[k].Position])
            ELSE /\ results' = <<>>
                 /\ IF nGets < 10
                    THEN pc' = "sleep" /\ attempt' = attempt + 1
                    ELSE pc' = "ret"]_vars
    /\ [][(sawSuccess /\ pc # "loop") => (nGets' = nGets /\ nSleeps' = nSleeps)]_vars
    /\ [][(pc = "ret" /\ sawSuccess) => data' = results]_vars
    /\ []((pc = "ret" /\ submitOk) => (sawSuccess \/ nGets = 10))

C9_Witness == pc = "ret" /\ sawSuccess /\ nGets = 3 /\ results # <<>>

\* C10: a fetch is issued only when the single sleep since the previous network call has
\* elapsed, of 30s before the first fetch and 60s before each later one, and when no
\* fetch is outstanding; the outstanding fetch is for the task id of the submit.
C10_Gated ==
    /\ [][nGets' = nGets + 1 =>
            /\ sleeps = <<IF nGets = 0 THEN 30 ELSE 60>>
            /\ requested = <<>>
            /\ requested' = <<task_id>>]_vars
    /\ [][requested' # requested => (nGets' = nGets + 1 \/ requested' = <<>>)]_vars
    /\ [](Len(requested) <= 1)
    /\ []((requested # <<>>) => (pc = "get_wait" /\ requested[1] = task_id /\ task_id \notin {None, ""}))
    /\ [](pc = "get" => (sleeps # <<>> /\ nSleeps = nGets + 1))

C10_Witness == pc = "get_wait" /\ nGets = 2 /\ nSleeps = 2 /\ requested = <<"t1">>

====
